---- MODULE Spec2Model ----
(***************************************************************************)
(* pydoc-markdown, src/pydoc_markdown/main.py: the RenderSession class     *)
(* (override application, pipeline run, watch/rebuild/serve loop) and the  *)
(* cli entry point that drives it.                                         *)
(*                                                                         *)
(* The specifications share the variables:                                 *)
(*   Spec    the watch_and_serve loop, one step per statement, interleaved *)
(*           with the file-watch thread, the preview-server child process  *)
(*           and an external interrupt;                                    *)
(*   SpecOv  _apply_overrides applied to a configuration object, followed  *)
(*           by the render that cli starts after a successful load;        *)
(*   SpecCli cli from its arguments on (configuration lookup, load,        *)
(*           render), for a run without --watch-and-serve;                 *)
(*   SpecLive Spec with the control thread scheduled fairly.               *)
(***************************************************************************)
EXTENDS Integers, Sequences, FiniteSets, TLC

VARIABLES
  config,       \* the PydocMarkdown object: loaders, processors, renderer
  session,      \* RenderSession fields: modules, search_path, py2, render_toc
  open_browser, \* watch_and_serve's open_browser argument
  pc,           \* position of the control thread
  exc,          \* the exception that is propagating / ended the call
  errmsg,       \* the message error() printed, << >> if none
  observer,     \* local observer: 0 is None, else an index into obs
  event,        \* local event: 0 is None, else an index into obs
  process,      \* local process: 0 is None, else an index into procs
  watch_files,  \* local watch_files
  obs,          \* every (observer, event) pair watch_paths has returned
  procs,        \* every process mkdocs_serve has returned
  renders,      \* number of calls of RenderSession.render
  opened,       \* number of webbrowser.open calls
  signals,      \* number of change signals the file-watch has raised
  missed,       \* change signals raised while the latest render was in flight
  applies,      \* number of calls of _apply_overrides
  cfg_before,   \* the configuration as it was before the latest _apply_overrides
  cli_arg,      \* cli's config argument as given on the command line
  cli_config,   \* cli's local config, which becomes session.config
  fs,           \* the files that exist in the working directory
  loaded_from,  \* what load() passed to config.load_config, None if not called
  graph,        \* config.graph.modules as line 157 read it in the latest run
  calls         \* the pipeline phases render has called, with each run's outcome

vars == << config, session, open_browser, pc, exc, errmsg, observer, event,
           process, watch_files, obs, procs, renders, opened, signals, missed,
           applies, cfg_before, cli_arg, cli_config, fs, loaded_from, graph,
           calls >>

\* ---------------------------------------------------------------- bounds

MaxRenders == 3
MaxSignals == 3
MaxLoaders == 2
MaxFields == 2
MaxApplies == 2

\* ------------------------------------------------------- the data model

None == "None"

\* Modules a run can find in config.graph.modules, and m.location.filename.
Modules == {"pkg.a", "pkg.b"}

Location(m) == IF m = "pkg.a" THEN "pkg/a.py" ELSE "pkg/b.py"

\* A loader of config.loaders. python: isinstance(l, PythonLoader).
Loader(python, print_function) ==
  [python |-> python, modules |-> << "cfg.mod" >>,
   search_path |-> << "cfg/path" >>, print_function |-> print_function]

\* A declared field of the renderer struct. md: its declared type is a
\* StructType whose struct_cls is a subclass of MarkdownRenderer; render_toc
\* is the flag of the renderer object the field holds.
Field(md, render_toc) == [md |-> md, render_toc |-> render_toc]

RendererKinds == {"MarkdownRenderer", "MkdocsRenderer"}

IsMarkdownRenderer(r) == r.kind = "MarkdownRenderer"

IsMkdocsRenderer(r) == r.kind = "MkdocsRenderer"

Processors == << "filter", "smart", "crossref" >>

\* The mkdocs configuration of DEFAULT_CONFIG_MKDOCS: one Python loader, the
\* three processors, a MkdocsRenderer wrapping a MarkdownRenderer.
MkdocsConfig ==
  [py_type |-> "PydocMarkdown",
   loaders |-> << Loader(TRUE, TRUE) >>, processors |-> Processors,
   renderer |-> [kind |-> "MkdocsRenderer", render_toc |-> FALSE,
                 fields |-> << Field(FALSE, FALSE), Field(TRUE, FALSE) >>]]

\* The configuration of DEFAULT_CONFIG: a bare MarkdownRenderer.
MarkdownConfig ==
  [py_type |-> "PydocMarkdown",
   loaders |-> << Loader(TRUE, TRUE) >>, processors |-> Processors,
   renderer |-> [kind |-> "MarkdownRenderer", render_toc |-> FALSE,
                 fields |-> << >>]]

\* Lines 46-49.
config_filenames == << "pydoc-markdown.yml", "pydoc-markdown.yaml" >>

\* Values of cli's config argument: none, a file name, inline YAML.
CliArgs == {None, "custom.yml", "{renderer: {type: mkdocs}}", "{}"}

\* Line 283: config.lstrip().startswith('{') or '\n' in config.
IsInlineYaml(arg) == arg \in {"{renderer: {type: mkdocs}}", "{}"}

\* Line 284: yaml.safe_load(config), a dict.
yaml_safe_load(arg) == IF arg = "{}" THEN "dict()" ELSE "dict(renderer)"

\* isinstance(c, str) for a value of session.config.
IsFileName(c) == c \notin {None, "dict()", "dict(renderer)"}

\* Line 143: the truth value of self.config.
Truthy(c) == c \notin {None, "dict()"}

NoOverrides ==
  [modules |-> << >>, search_path |-> << >>, py2 |-> None, render_toc |-> None]

\* ------------------------------------------------------ RenderSession.render

\* isinstance(config, str), for the object render is given.
IsStr(cfg) == cfg.py_type = "str"

\* render adding to the list of the run before instead of building a new one.
render_Accumulates(cfg, g) ==
  watch_files \cup {Location(m) : m \in g} \cup (IF IsStr(cfg) THEN {cfg} ELSE {})

\* The list of files to watch that render returns for the modules g of the
\* graph: lines 157-161.
render(cfg, g) ==
  {Location(m) : m \in g} \cup (IF IsStr(cfg) THEN {cfg} ELSE {})

\* Lines 153-155: the phases of a run, in the order render calls them.
Phases == << "load_modules", "process", "render" >>

\* run_calls going on with the later phases after the k-th has raised.
run_calls_KeepsGoing(k) ==
  [i \in 1..Len(Phases) |-> << Phases[i], IF i = k THEN "raised" ELSE "ok" >>]

\* The calls of one run of render, each with its outcome: all three phases
\* when none raises (k = 0), else the phases up to the k-th, which raises.
run_calls(k) ==
  IF k = 0
    THEN [i \in 1..Len(Phases) |-> << Phases[i], "ok" >>]
    ELSE [i \in 1..k |-> << Phases[i], IF i = k THEN "raised" ELSE "ok" >>]

\* config.load_modules(): the graphs the load phase can leave, made of the
\* modules the loaders document in this run.
load_modules == SUBSET Modules

\* watch_paths(paths): a started observer and a fresh, unset event.
watch_paths(paths) == [paths |-> paths, stops |-> 0, set |-> FALSE]

\* config.renderer.mkdocs_serve(): a running child process.
mkdocs_serve == [terminates |-> 0, alive |-> TRUE]

\* ------------------------------------------------- watch_and_serve, by step

InTry == {"loop", "render", "restop", "install", "serve", "wait"}

WatchUnchanged ==
  UNCHANGED << config, session, open_browser, errmsg, applies, cfg_before,
               cli_arg, cli_config, fs, loaded_from >>

RunUnchanged == UNCHANGED << graph, calls >>

\* Entry without the isinstance test of line 170.
Entry_NoCheck ==
  /\ pc = "entry"
  /\ pc' = "loop"
  /\ observer' = 0
  /\ event' = 0
  /\ process' = 0
  /\ watch_files' = {}
  /\ UNCHANGED << config, session, open_browser, exc, errmsg, obs, procs,
                  renders, opened, signals, missed, applies, cfg_before,
                  cli_arg, cli_config, fs, loaded_from, graph, calls >>

\* Entry starting the preview server ahead of the loop.
Entry_ServesFirst ==
  /\ pc = "entry"
  /\ pc' = "loop"
  /\ observer' = 0
  /\ event' = 0
  /\ procs' = Append(procs, mkdocs_serve)
  /\ process' = Len(procs) + 1
  /\ watch_files' = {}
  /\ UNCHANGED << config, session, open_browser, exc, errmsg, obs,
                  renders, opened, signals, missed, applies, cfg_before,
                  cli_arg, cli_config, fs, loaded_from, graph, calls >>

\* Lines 170-175: the renderer check, then the locals.
Entry ==
  /\ pc = "entry"
  /\ IF ~IsMkdocsRenderer(config.renderer)
       THEN /\ pc' = "exited"
            /\ exc' = "SystemExit"
            /\ errmsg' = << "--watch-and-serve can only be used in combination with the mkdocs renderer." >>
            /\ UNCHANGED << observer, event, process, watch_files >>
       ELSE /\ pc' = "loop"
            /\ observer' = 0
            /\ event' = 0
            /\ process' = 0
            /\ watch_files' = {}
            /\ UNCHANGED << exc, errmsg >>
  /\ UNCHANGED << config, session, open_browser, obs, procs, renders, opened,
                  signals, missed, applies, cfg_before, cli_arg, cli_config,
                  fs, loaded_from, graph, calls >>

\* LoopTest rendering on every pass, whatever the event says.
LoopTest_Always ==
  /\ pc = "loop"
  /\ renders < MaxRenders
  /\ pc' = "render"
  /\ renders' = renders + 1
  /\ missed' = 0
  /\ WatchUnchanged
  /\ RunUnchanged
  /\ UNCHANGED << exc, observer, event, process, watch_files, obs, procs, opened, signals >>

\* LoopTest rendering only while there is no event yet.
LoopTest_InitialOnly ==
  /\ pc = "loop"
  /\ IF event = 0
       THEN /\ renders < MaxRenders
            /\ pc' = "render"
            /\ renders' = renders + 1
            /\ missed' = 0
       ELSE /\ pc' = "serve"
            /\ UNCHANGED << renders, missed >>
  /\ WatchUnchanged
  /\ RunUnchanged
  /\ UNCHANGED << exc, observer, event, process, watch_files, obs, procs, opened, signals >>

\* Line 180: initial render or re-render if a file changed.
LoopTest ==
  /\ pc = "loop"
  /\ IF event = 0 \/ obs[event].set
       THEN /\ renders < MaxRenders
            /\ pc' = "render"
            /\ renders' = renders + 1
            /\ missed' = 0
       ELSE /\ pc' = "serve"
            /\ UNCHANGED << renders, missed >>
  /\ WatchUnchanged
  /\ RunUnchanged
  /\ UNCHANGED << exc, observer, event, process, watch_files, obs, procs, opened, signals >>

\* Line 182, the run succeeds: watch_files = self.render(config).
RenderOk ==
  /\ pc = "render"
  /\ \E g \in load_modules :
       /\ graph' = g
       /\ watch_files' = render(config, g)
  /\ calls' = calls \o run_calls(0)
  /\ pc' = "restop"
  /\ WatchUnchanged
  /\ UNCHANGED << exc, observer, event, process, obs, procs, renders, opened, signals, missed >>

\* RenderRaises with the failure caught inside the loop, which then waits again.
RenderRaises_Swallowed ==
  /\ pc = "render"
  /\ \E k \in 1..Len(Phases) : calls' = calls \o run_calls(k)
  /\ exc' = "StageExecutionFailure"
  /\ pc' = "wait"
  /\ UNCHANGED graph
  /\ WatchUnchanged
  /\ UNCHANGED << observer, event, process, watch_files, obs, procs, renders, opened, signals, missed >>

\* Line 182, load_modules, process or render raises: render does not reach
\* line 157, and nothing in the loop catches the exception, so it propagates
\* to the finally clause.
RenderRaises ==
  /\ pc = "render"
  /\ \E k \in 1..Len(Phases) : calls' = calls \o run_calls(k)
  /\ exc' = "StageExecutionFailure"
  /\ pc' = "finally"
  /\ UNCHANGED graph
  /\ WatchUnchanged
  /\ UNCHANGED << observer, event, process, watch_files, obs, procs, renders, opened, signals, missed >>

\* StopPrevious without the call of observer.stop().
StopPrevious_Skipped ==
  /\ pc = "restop"
  /\ pc' = "install"
  /\ WatchUnchanged
  /\ RunUnchanged
  /\ UNCHANGED << exc, observer, event, process, watch_files, obs, procs, renders, opened, signals, missed >>

\* Lines 183-184: if observer: observer.stop().
StopPrevious ==
  /\ pc = "restop"
  /\ obs' = IF observer # 0
              THEN [obs EXCEPT ![observer].stops = @ + 1]
              ELSE obs
  /\ pc' = "install"
  /\ WatchUnchanged
  /\ RunUnchanged
  /\ UNCHANGED << exc, observer, event, process, watch_files, procs, renders, opened, signals, missed >>

\* Line 185: observer, event = watch_paths(watch_files).
Install ==
  /\ pc = "install"
  /\ obs' = Append(obs, watch_paths(watch_files))
  /\ observer' = Len(obs) + 1
  /\ event' = Len(obs) + 1
  /\ pc' = "serve"
  /\ WatchUnchanged
  /\ RunUnchanged
  /\ UNCHANGED << exc, process, watch_files, procs, renders, opened, signals, missed >>

\* Line 185, watch_paths raises: the locals keep the previous pair.
InstallRaises ==
  /\ pc = "install"
  /\ exc' = "WatchFailure"
  /\ pc' = "finally"
  /\ WatchUnchanged
  /\ RunUnchanged
  /\ UNCHANGED << observer, event, process, watch_files, obs, procs, renders, opened, signals, missed >>

\* Serve without the test of line 188: a process is started on every pass.
Serve_Always ==
  /\ pc = "serve"
  /\ procs' = Append(procs, mkdocs_serve)
  /\ process' = Len(procs) + 1
  /\ opened' = IF open_browser THEN opened + 1 ELSE opened
  /\ pc' = "wait"
  /\ WatchUnchanged
  /\ RunUnchanged
  /\ UNCHANGED << exc, observer, event, watch_files, obs, renders, signals, missed >>

\* Serve starting a process also when the one it holds is no longer alive.
Serve_RestartsDead ==
  /\ pc = "serve"
  /\ IF process = 0 \/ ~procs[process].alive
       THEN /\ procs' = Append(procs, mkdocs_serve)
            /\ process' = Len(procs) + 1
            /\ opened' = IF open_browser THEN opened + 1 ELSE opened
       ELSE UNCHANGED << procs, process, opened >>
  /\ pc' = "wait"
  /\ WatchUnchanged
  /\ RunUnchanged
  /\ UNCHANGED << exc, observer, event, watch_files, obs, renders, signals, missed >>

\* Lines 188-192: if the process doesn't exist, start it.
Serve ==
  /\ pc = "serve"
  /\ IF process = 0
       THEN /\ procs' = Append(procs, mkdocs_serve)
            /\ process' = Len(procs) + 1
            /\ opened' = IF open_browser THEN opened + 1 ELSE opened
       ELSE UNCHANGED << procs, process, opened >>
  /\ pc' = "wait"
  /\ WatchUnchanged
  /\ RunUnchanged
  /\ UNCHANGED << exc, observer, event, watch_files, obs, renders, signals, missed >>

\* Line 190, mkdocs_serve raises: process stays None.
ServeRaises ==
  /\ pc = "serve"
  /\ process = 0
  /\ exc' = "ProcessSupervisionFailure"
  /\ pc' = "finally"
  /\ WatchUnchanged
  /\ RunUnchanged
  /\ UNCHANGED << observer, event, process, watch_files, obs, procs, renders, opened, signals, missed >>

\* Line 194: event.wait(0.5) returns when the event is set or after 0.5 s.
Wait ==
  /\ pc = "wait"
  /\ pc' = "loop"
  /\ WatchUnchanged
  /\ RunUnchanged
  /\ UNCHANGED << exc, observer, event, process, watch_files, obs, procs, renders, opened, signals, missed >>

\* An external interrupt (KeyboardInterrupt) while the thread is in the try block.
Interrupt ==
  /\ pc \in InTry
  /\ exc' = "KeyboardInterrupt"
  /\ pc' = "finally"
  /\ WatchUnchanged
  /\ RunUnchanged
  /\ UNCHANGED << observer, event, process, watch_files, obs, procs, renders, opened, signals, missed >>

\* Finally without lines 196-197.
Finally_KeepsObserver ==
  /\ pc = "finally"
  /\ procs' = IF process # 0
                THEN [procs EXCEPT ![process].terminates = @ + 1, ![process].alive = FALSE]
                ELSE procs
  /\ pc' = "exited"
  /\ WatchUnchanged
  /\ RunUnchanged
  /\ UNCHANGED << exc, observer, event, process, watch_files, obs, renders, opened, signals, missed >>

\* Finally stopping every observer the loop has created.
Finally_StopsAll ==
  /\ pc = "finally"
  /\ obs' = [o \in 1..Len(obs) |-> [obs[o] EXCEPT !.stops = @ + 1]]
  /\ procs' = IF process # 0
                THEN [procs EXCEPT ![process].terminates = @ + 1, ![process].alive = FALSE]
                ELSE procs
  /\ pc' = "exited"
  /\ WatchUnchanged
  /\ RunUnchanged
  /\ UNCHANGED << exc, observer, event, process, watch_files, renders, opened, signals, missed >>

\* Lines 195-199: stop the observer, terminate the process.
Finally ==
  /\ pc = "finally"
  /\ obs' = IF observer # 0
              THEN [obs EXCEPT ![observer].stops = @ + 1]
              ELSE obs
  /\ procs' = IF process # 0
                THEN [procs EXCEPT ![process].terminates = @ + 1, ![process].alive = FALSE]
                ELSE procs
  /\ pc' = "exited"
  /\ WatchUnchanged
  /\ RunUnchanged
  /\ UNCHANGED << exc, observer, event, process, watch_files, renders, opened, signals, missed >>

\* The file-watch thread of a running observer sets its event.
Signal ==
  /\ signals < MaxSignals
  /\ \E o \in 1..Len(obs) :
       /\ obs[o].stops = 0
       /\ obs' = [obs EXCEPT ![o].set = TRUE]
  /\ signals' = signals + 1
  /\ missed' = IF pc = "render" THEN missed + 1 ELSE missed
  /\ WatchUnchanged
  /\ RunUnchanged
  /\ UNCHANGED << pc, exc, observer, event, process, watch_files, procs, renders, opened >>

\* The preview-server child process exits on its own.
ProcessExits ==
  /\ \E p \in 1..Len(procs) :
       /\ procs[p].alive
       /\ procs[p].terminates = 0
       /\ procs' = [procs EXCEPT ![p].alive = FALSE]
  /\ WatchUnchanged
  /\ RunUnchanged
  /\ UNCHANGED << pc, exc, observer, event, process, watch_files, obs, renders, opened, signals, missed >>

\* ------------------------------------------- RenderSession._apply_overrides

\* Line 110: self.modules or self.search_path or self.py2 is not None.
LoaderOverrideRequested(s) ==
  s.modules # << >> \/ s.search_path # << >> \/ s.py2 # None

\* FirstPythonLoader without the isinstance filter.
FirstPythonLoader_AnyLoader(loaders) == IF Len(loaders) > 0 THEN 1 ELSE 0

\* Lines 111-112: next((l for l in config.loaders if isinstance(l, PythonLoader)),
\* None), as the index of that loader, 0 for None.
FirstPythonLoader(loaders) ==
  IF \E i \in 1..Len(loaders) : loaders[i].python
    THEN CHOOSE i \in 1..Len(loaders) :
           loaders[i].python /\ \A j \in 1..(i - 1) : ~loaders[j].python
    ELSE 0

\* OverrideLoader extending the lists instead of assigning them.
OverrideLoader_Accumulate(l, s) ==
  [l EXCEPT !.modules = @ \o s.modules,
            !.search_path = @ \o s.search_path,
            !.print_function = IF s.py2 # None THEN ~(s.py2 = "True") ELSE @]

\* OverrideLoader assigning the lists also when the override is empty.
OverrideLoader_ClobbersUnset(l, s) ==
  [l EXCEPT !.modules = s.modules,
            !.search_path = s.search_path,
            !.print_function = IF s.py2 # None THEN ~(s.py2 = "True") ELSE @]

\* Lines 115-120: the three assignments on the loader.
OverrideLoader(l, s) ==
  [l EXCEPT !.modules = IF s.modules # << >> THEN s.modules ELSE @,
            !.search_path = IF s.search_path # << >> THEN s.search_path ELSE @,
            !.print_function = IF s.py2 # None THEN ~(s.py2 = "True") ELSE @]

\* Lines 124-128: the first field of config.renderer.__fields__ whose datatype
\* is a StructType of a MarkdownRenderer subclass; 0 when the loop ends
\* without break.
FirstMarkdownField(r) ==
  IF \E i \in 1..Len(r.fields) : r.fields[i].md
    THEN CHOOSE i \in 1..Len(r.fields) :
           r.fields[i].md /\ \A j \in 1..(i - 1) : ~r.fields[j].md
    ELSE 0

RendererError(r) == << "renderer", r.kind, "does not expose a MarkdownRenderer" >>

\* OverrideRenderer testing the renderer itself before its fields.
OverrideRenderer_SelfFirst(r, s) ==
  IF IsMarkdownRenderer(r)
    THEN [renderer |-> [r EXCEPT !.render_toc = (s.render_toc = "True")], err |-> << >>]
    ELSE IF FirstMarkdownField(r) # 0
      THEN [renderer |-> [r EXCEPT !.fields[FirstMarkdownField(r)].render_toc = (s.render_toc = "True")],
            err |-> << >>]
      ELSE [renderer |-> r, err |-> RendererError(r)]

\* Lines 123-135: find the MarkdownRenderer and set its render_toc, or fail.
OverrideRenderer(r, s) ==
  IF FirstMarkdownField(r) # 0
    THEN [renderer |-> [r EXCEPT !.fields[FirstMarkdownField(r)].render_toc = (s.render_toc = "True")],
          err |-> << >>]
    ELSE IF IsMarkdownRenderer(r)
      THEN [renderer |-> [r EXCEPT !.render_toc = (s.render_toc = "True")], err |-> << >>]
      ELSE [renderer |-> r, err |-> RendererError(r)]

\* apply_overrides with the render_toc block ahead of the loader block.
apply_overrides_TocFirst(cfg, s) ==
  LET c1 == IF s.render_toc # None
              THEN [cfg EXCEPT !.renderer = OverrideRenderer(@, s).renderer]
              ELSE cfg
      e1 == IF s.render_toc # None THEN OverrideRenderer(cfg.renderer, s).err ELSE << >>
      li == FirstPythonLoader(cfg.loaders)
  IN  IF e1 # << >>
        THEN [config |-> c1, err |-> e1]
        ELSE IF LoaderOverrideRequested(s) /\ li = 0
          THEN [config |-> c1, err |-> << "no python loader found" >>]
          ELSE IF LoaderOverrideRequested(s)
            THEN [config |-> [c1 EXCEPT !.loaders[li] = OverrideLoader(@, s)], err |-> << >>]
            ELSE [config |-> c1, err |-> << >>]

\* Lines 104-135: the configuration object after the call and the message
\* error() printed, << >> when the call returned.
apply_overrides(cfg, s) ==
  LET li == FirstPythonLoader(cfg.loaders)
  IN  IF LoaderOverrideRequested(s) /\ li = 0
        THEN [config |-> cfg, err |-> << "no python loader found" >>]
        ELSE LET c1 == IF LoaderOverrideRequested(s)
                         THEN [cfg EXCEPT !.loaders[li] = OverrideLoader(@, s)]
                         ELSE cfg
             IN  IF s.render_toc # None
                   THEN [config |-> [c1 EXCEPT !.renderer = OverrideRenderer(@, s).renderer],
                         err |-> OverrideRenderer(c1.renderer, s).err]
                   ELSE [config |-> c1, err |-> << >>]

\* ------------------------------------------------------- cli, lines 298-302

LoopUnchanged ==
  UNCHANGED << open_browser, observer, event, process, watch_files, obs, procs,
               opened, signals, missed >>

CliUnchanged == UNCHANGED << cli_arg, cli_config, fs, loaded_from >>

\* A call of self._apply_overrides(config): the one load() makes at line 145,
\* or a further one on the same objects. error() ends the process.
ApplyOverrides ==
  /\ pc \in {"load", "loaded"}
  /\ applies < MaxApplies
  /\ applies' = applies + 1
  /\ cfg_before' = config
  /\ config' = apply_overrides(config, session).config
  /\ errmsg' = apply_overrides(config, session).err
  /\ IF apply_overrides(config, session).err = << >>
       THEN pc' = "loaded" /\ UNCHANGED exc
       ELSE pc' = "exited" /\ exc' = "SystemExit"
  /\ LoopUnchanged
  /\ CliUnchanged
  /\ RunUnchanged
  /\ UNCHANGED << session, renders >>

\* Line 302: session.render(pydocmd), once load() has returned; the list it
\* returns is dropped.
CliRender ==
  /\ pc = "loaded"
  /\ renders' = renders + 1
  /\ graph' \in load_modules
  /\ calls' = calls \o run_calls(0)
  /\ pc' = "rendered"
  /\ LoopUnchanged
  /\ CliUnchanged
  /\ UNCHANGED << config, session, exc, errmsg, applies, cfg_before >>

\* Line 302, a phase raises: the exception leaves cli.
CliRenderRaises ==
  /\ pc = "loaded"
  /\ renders' = renders + 1
  /\ \E k \in 1..Len(Phases) : calls' = calls \o run_calls(k)
  /\ exc' = "StageExecutionFailure"
  /\ pc' = "crashed"
  /\ LoopUnchanged
  /\ CliUnchanged
  /\ UNCHANGED << config, session, errmsg, applies, cfg_before, graph >>

SeqsUpTo(S, n) == UNION {[1..k -> S] : k \in 0..n}

LoaderChoices == {Loader(FALSE, TRUE), Loader(TRUE, TRUE), Loader(TRUE, FALSE)}

FieldChoices == {Field(FALSE, FALSE), Field(TRUE, FALSE), Field(TRUE, TRUE)}

RendererChoices ==
  {[kind |-> k, render_toc |-> t, fields |-> f] :
     k \in RendererKinds, t \in BOOLEAN, f \in SeqsUpTo(FieldChoices, MaxFields)}

\* The configurations load_config can produce. Only a MarkdownRenderer has a
\* render_toc of its own; the attribute is held FALSE on the other kinds.
Configs ==
  {[py_type |-> "PydocMarkdown", loaders |-> l, processors |-> Processors, renderer |-> r] :
     l \in SeqsUpTo(LoaderChoices, MaxLoaders),
     r \in {x \in RendererChoices : x.render_toc => IsMarkdownRenderer(x)}}

\* The override options of the command line (lines 217-229).
OverrideSets ==
  [modules : {<< >>, << "cli.mod" >>}, search_path : {<< >>, << "cli/path" >>},
   py2 : {None, "True", "False"}, render_toc : {None, "True", "False"}]

InitOv ==
  /\ config \in Configs
  /\ session \in OverrideSets
  /\ open_browser = FALSE
  /\ pc = "load"
  /\ exc = "none"
  /\ errmsg = << >>
  /\ observer = 0
  /\ event = 0
  /\ process = 0
  /\ watch_files = {}
  /\ obs = << >>
  /\ procs = << >>
  /\ renders = 0
  /\ opened = 0
  /\ signals = 0
  /\ missed = 0
  /\ applies = 0
  /\ cfg_before = config
  /\ cli_arg = None
  /\ cli_config = None
  /\ fs = {}
  /\ loaded_from = None
  /\ graph = {}
  /\ calls = << >>

NextOv ==
  \/ ApplyOverrides
  \/ CliRender

SpecOv == InitOv /\ [][NextOv]_vars

\* ------------------------------------------------------- cli, lines 267-298

\* load_implicit_config looking for the default file whatever the options.
load_implicit_config_Always(s) == TRUE

\* Line 270: not any((modules, search_path, py2 is not None)).
load_implicit_config(s) ==
  ~(s.modules # << >> \/ s.search_path # << >> \/ s.py2 # None)

\* Line 287: the first name of config_filenames that exists, None for
\* StopIteration.
first_existing(files) ==
  IF \E i \in 1..Len(config_filenames) : config_filenames[i] \in files
    THEN config_filenames[CHOOSE i \in 1..Len(config_filenames) :
                            /\ config_filenames[i] \in files
                            /\ \A j \in 1..(i - 1) : config_filenames[j] \notin files]
    ELSE None

\* PydocMarkdown(): the configuration object before load_config.
PydocMarkdownDefaults == MarkdownConfig

\* config.load_config(c): the configuration the file or the dict describes.
load_config(c) ==
  IF c = "pydoc-markdown.yml" THEN MkdocsConfig
  ELSE IF c = "pydoc-markdown.yaml"
    THEN [MarkdownConfig EXCEPT !.renderer.render_toc = TRUE]
  ELSE IF c = "custom.yml" THEN [MkdocsConfig EXCEPT !.loaders = << >>]
  ELSE [MkdocsConfig EXCEPT !.loaders = << Loader(FALSE, TRUE), Loader(TRUE, FALSE) >>]

\* Lines 267-296, without --bootstrap: the configuration lookup, up to the
\* construction of the session.
CliResolve ==
  /\ pc = "cli"
  /\ LET c == IF cli_arg # None /\ IsInlineYaml(cli_arg)
                THEN yaml_safe_load(cli_arg)
                ELSE cli_arg
     IN  IF c = None /\ load_implicit_config(session)
           THEN IF first_existing(fs) = None
                  THEN /\ errmsg' = << "config file not found." >>
                       /\ exc' = "SystemExit"
                       /\ pc' = "exited"
                       /\ UNCHANGED cli_config
                  ELSE /\ cli_config' = first_existing(fs)
                       /\ pc' = "session_load"
                       /\ UNCHANGED << errmsg, exc >>
           ELSE /\ cli_config' = c
                /\ pc' = "session_load"
                /\ UNCHANGED << errmsg, exc >>
  /\ LoopUnchanged
  /\ RunUnchanged
  /\ UNCHANGED << config, session, renders, applies, cfg_before, cli_arg, fs, loaded_from >>

\* Lines 137-146, called at line 298: load() builds the configuration object
\* and applies the overrides to it.
SessionLoad ==
  /\ pc = "session_load"
  /\ LET base == IF Truthy(cli_config) THEN load_config(cli_config) ELSE PydocMarkdownDefaults
     IN  /\ loaded_from' = (IF Truthy(cli_config) THEN cli_config ELSE None)
         /\ cfg_before' = base
         /\ applies' = applies + 1
         /\ config' = apply_overrides(base, session).config
         /\ errmsg' = apply_overrides(base, session).err
         /\ IF apply_overrides(base, session).err = << >>
              THEN pc' = "loaded" /\ UNCHANGED exc
              ELSE pc' = "exited" /\ exc' = "SystemExit"
  /\ LoopUnchanged
  /\ RunUnchanged
  /\ UNCHANGED << session, renders, cli_arg, cli_config, fs >>

InitCli ==
  /\ config = PydocMarkdownDefaults
  /\ session \in OverrideSets
  /\ open_browser = FALSE
  /\ pc = "cli"
  /\ exc = "none"
  /\ errmsg = << >>
  /\ observer = 0
  /\ event = 0
  /\ process = 0
  /\ watch_files = {}
  /\ obs = << >>
  /\ procs = << >>
  /\ renders = 0
  /\ opened = 0
  /\ signals = 0
  /\ missed = 0
  /\ applies = 0
  /\ cfg_before = config
  /\ cli_arg \in CliArgs
  /\ cli_config = cli_arg
  /\ fs \in SUBSET {config_filenames[i] : i \in 1..Len(config_filenames)}
  /\ loaded_from = None
  /\ graph = {}
  /\ calls = << >>

NextCli ==
  \/ CliResolve
  \/ SessionLoad
  \/ CliRender
  \/ CliRenderRaises

SpecCli == InitCli /\ [][NextCli]_vars

\* cli has loaded the configuration, from the default file or from inline
\* YAML, and calls session.watch_and_serve.
Init ==
  /\ config \in {MkdocsConfig, MarkdownConfig}
  /\ session = NoOverrides
  /\ open_browser \in BOOLEAN
  /\ pc = "entry"
  /\ exc = "none"
  /\ errmsg = << >>
  /\ observer = 0
  /\ event = 0
  /\ process = 0
  /\ watch_files = {}
  /\ obs = << >>
  /\ procs = << >>
  /\ renders = 0
  /\ opened = 0
  /\ signals = 0
  /\ missed = 0
  /\ applies = 0
  /\ cfg_before = config
  /\ cli_arg \in {None, "{renderer: {type: mkdocs}}"}
  /\ cli_config = IF cli_arg = None THEN config_filenames[1] ELSE yaml_safe_load(cli_arg)
  /\ fs = {config_filenames[1]}
  /\ loaded_from = cli_config
  /\ graph = {}
  /\ calls = << >>

Next ==
  \/ Entry
  \/ LoopTest
  \/ RenderOk
  \/ RenderRaises
  \/ StopPrevious
  \/ Install
  \/ InstallRaises
  \/ Serve
  \/ ServeRaises
  \/ Wait
  \/ Interrupt
  \/ Finally
  \/ Signal
  \/ ProcessExits

Spec == Init /\ [][Next]_vars

\* The control thread is a running thread: a pending loop test, server check
\* or bounded wait (line 194 returns after 0.5 s at the latest) is executed.
SpecLive ==
  /\ Init
  /\ [][Next]_vars
  /\ WF_vars(LoopTest)
  /\ WF_vars(Serve)
  /\ WF_vars(Wait)

\* ------------------------------------------------ the watch loop's claims

Stopped(o) == obs[o].stops >= 1

Terminated(p) == procs[p].terminates >= 1

C2_CleanupOnExit ==
  pc = "exited" =>
    /\ \A o \in 1..Len(obs) : Stopped(o)
    /\ \A p \in 1..Len(procs) : Terminated(p)

C2_Witness ==
  /\ pc = "exited"
  /\ exc = "KeyboardInterrupt"
  /\ Len(obs) >= 2
  /\ Len(procs) = 1

\* C3: change signals raised while a render is in flight are followed by one
\* further render: when the loop next evaluates line 180 with such signals
\* outstanding, it renders.
C3_CoalescedRerender ==
  [][(pc = "loop" /\ missed > 0 /\ pc' # "loop" /\ pc' # "finally") => pc' = "render"]_vars

C5_OneRegistration ==
  /\ Cardinality({o \in 1..Len(obs) : ~Stopped(o)}) <= 1
  /\ \A o \in 1..Len(obs) : ~Stopped(o) => o = observer
  /\ pc = "install" => \A o \in 1..Len(obs) : Stopped(o)
  /\ (pc \in {"serve", "wait", "loop", "render"} /\ observer # 0) =>
       /\ ~Stopped(observer)
       /\ obs[observer].paths = watch_files

C5_Witness ==
  /\ pc = "serve"
  /\ Len(obs) = 2
  /\ observer = 2
  /\ Stopped(1)
  /\ ~Stopped(2)
  /\ obs[1].paths # obs[2].paths

\* C6: with a renderer that is not the mkdocs renderer watch_and_serve fails
\* at entry with the fatal error: no pipeline run, no file-watch registration,
\* no preview-server process.
C6_UnsupportedRendererRefused ==
  ~IsMkdocsRenderer(config.renderer) =>
    /\ pc \in {"entry", "exited"}
    /\ renders = 0
    /\ obs = << >>
    /\ procs = << >>
    /\ pc = "exited" => (exc = "SystemExit" /\ errmsg # << >>)

C6_Witness ==
  /\ ~IsMkdocsRenderer(config.renderer)
  /\ pc = "exited"

\* --------------------------------------------- the pipeline run's claims

RunReturned == Len(calls) > 0 /\ calls[Len(calls)] = << "render", "ok" >>

RunRaised == Len(calls) > 0 /\ calls[Len(calls)][2] = "raised"

\* C11: the WatchSet a successful run returns is the set of the source-file
\* locations of the graph's modules, plus the configuration file's path
\* whenever the configuration came from a file.
C11_WatchSetHasConfigFile ==
  (pc = "restop" /\ RunReturned) =>
    watch_files = {Location(m) : m \in graph}
                    \cup (IF IsFileName(cli_config) THEN {cli_config} ELSE {})

\* C12: the WatchSet of a run holds only files of modules of that run's
\* graph, whatever the run before documented, and so does the registration
\* installed for it.
C12_WatchSetRecomputed ==
  /\ \A f \in watch_files : \E m \in graph : Location(m) = f
  /\ (pc \in {"serve", "wait", "loop"} /\ observer # 0) =>
       \A f \in obs[observer].paths : \E m \in graph : Location(m) = f

C12_Witness ==
  /\ pc = "serve"
  /\ Len(obs) = 2
  /\ observer = 2
  /\ obs[1].paths = {"pkg/a.py", "pkg/b.py"}
  /\ graph = {"pkg.b"}
  /\ watch_files = {"pkg/b.py"}
  /\ obs[2].paths = {"pkg/b.py"}

\* C14: every run that render makes calls load_modules, process, render in
\* that order, each once; a phase that raises is the last call ever made (no later phase, no
\* retry), the failure reaches the caller and no WatchSet is returned: the
\* loop's watch_files is still the one of the registration in effect.
C14_PhasesInOrder ==
  /\ \A i \in 1..Len(calls) :
       /\ calls[i][1] = "load_modules" => (i = 1 \/ calls[i - 1] = << "render", "ok" >>)
       /\ calls[i][1] = "process" => (i > 1 /\ calls[i - 1] = << "load_modules", "ok" >>)
       /\ calls[i][1] = "render" => (i > 1 /\ calls[i - 1] = << "process", "ok" >>)
       /\ calls[i][2] = "raised" => i = Len(calls)
  /\ Len(calls) > 0 => (RunReturned \/ RunRaised)
  /\ LET runs == Cardinality({i \in 1..Len(calls) : calls[i][1] = "load_modules"})
     IN  /\ runs <= renders
         /\ pc = "render" => runs = renders - 1
         /\ pc \in {"restop", "install", "serve", "wait", "loop"} => runs = renders
  /\ RunRaised =>
       /\ exc = "StageExecutionFailure"
       /\ pc \in {"finally", "exited"}
       /\ watch_files = (IF observer = 0 THEN {} ELSE obs[observer].paths)

C14_Witness ==
  /\ renders = 2
  /\ Len(calls) = 5
  /\ calls[5] = << "process", "raised" >>
  /\ pc = "exited"
  /\ watch_files # {}

\* C15: a preview-server process exists only after a pipeline run has
\* returned and a file-watch registration has been installed; when the first
\* render fails none is ever started.
C15_ServerAfterFirstRender ==
  procs # << >> =>
    /\ \E i \in 1..Len(calls) : calls[i] = << "render", "ok" >>
    /\ obs # << >>

C15_Witness ==
  /\ pc = "exited"
  /\ renders = 1
  /\ RunRaised
  /\ procs = << >>

Alive(p) == procs[p].alive /\ ~Terminated(p)

C17_SignalLeadsToRender ==
  /\ (/\ pc \in {"serve", "wait", "loop"}
      /\ process # 0
      /\ event # 0
      /\ obs[event].set
      /\ renders < MaxRenders) ~> (pc = "render" \/ exc = "KeyboardInterrupt")
  /\ (pc = "wait") ~> (pc = "loop" \/ exc = "KeyboardInterrupt")

C17_Witness ==
  /\ pc = "render"
  /\ renders = 2
  /\ signals = 1
  /\ obs[event].set
  /\ exc = "none"

\* C18, as stated: over the whole run every file-watch handle has received
\* stop() exactly once and the preview-server process terminate exactly once.
C18_StoppedExactlyOnce ==
  pc = "exited" =>
    /\ \A o \in 1..Len(obs) : obs[o].stops = 1
    /\ \A p \in 1..Len(procs) : procs[p].terminates = 1

\* C18, amended: the cleanup runs once: the preview-server process receives
\* terminate exactly once, and every file-watch handle receives stop() once,
\* except the handle the locals still hold when the loop is left between its
\* stop() at line 184 and the assignment of line 185 (watch_paths raises, or
\* an interrupt arrives there), which receives stop() a second time.
C18_CleanupOnce ==
  /\ \A p \in 1..Len(procs) : procs[p].terminates <= 1
  /\ \A o \in 1..Len(obs) : obs[o].stops <= 2
  /\ pc = "exited" =>
       /\ \A p \in 1..Len(procs) : procs[p].terminates = 1
       /\ \A o \in 1..Len(obs) :
            /\ obs[o].stops >= 1
            /\ obs[o].stops = 2 =>
                 /\ o = observer
                 /\ exc \in {"WatchFailure", "KeyboardInterrupt"}
                 /\ RunReturned

C18_Witness ==
  /\ pc = "exited"
  /\ exc = "WatchFailure"
  /\ Len(obs) = 1
  /\ obs[1].stops = 2
  /\ Len(procs) = 1

\* C19: a run starts only on the first pass or when the event of the
\* registration in effect is set, and every registration starts with a fresh
\* event: the renders number at most one more than the events that were set,
\* hence at most one more than the change signals, and exactly one while no
\* change signal has been raised.
C19_NoSpuriousRender ==
  /\ renders <= 1 + Cardinality({o \in 1..Len(obs) : obs[o].set})
  /\ renders <= 1 + signals
  /\ pc = "render" => (renders = 1 \/ (event # 0 /\ obs[event].set))
  /\ (signals = 0 /\ pc \in {"restop", "install", "serve", "wait"}) => renders = 1

C19_Witness ==
  /\ renders = 3
  /\ signals = 2
  /\ pc = "wait"
  /\ ~obs[event].set

\* ----------------------------------------------------------- cli's claims

\* C13: without a config argument, when --module, --search-path or
\* --py2/--py3 is given no default configuration file is looked up or loaded
\* and the overrides are applied to the defaults; when none of them is given
\* the first existing name of the fixed order is loaded, and the command
\* fails if none exists.
C13_ImplicitConfig ==
  (cli_arg = None /\ pc # "cli") =>
    IF LoaderOverrideRequested(session)
      THEN /\ cli_config = None
           /\ loaded_from = None
           /\ errmsg # << "config file not found." >>
           /\ applies >= 1 => cfg_before = PydocMarkdownDefaults
      ELSE IF "pydoc-markdown.yml" \in fs
        THEN /\ cli_config = "pydoc-markdown.yml"
             /\ applies >= 1 => loaded_from = "pydoc-markdown.yml"
      ELSE IF "pydoc-markdown.yaml" \in fs
        THEN /\ cli_config = "pydoc-markdown.yaml"
             /\ applies >= 1 => loaded_from = "pydoc-markdown.yaml"
      ELSE /\ pc = "exited"
           /\ errmsg = << "config file not found." >>
           /\ applies = 0
           /\ renders = 0

C13_Witness ==
  /\ cli_arg = None
  /\ pc = "rendered"
  /\ session.search_path # << >>
  /\ session.modules = << >>
  /\ session.py2 = None
  /\ fs = {"pydoc-markdown.yml", "pydoc-markdown.yaml"}
  /\ loaded_from = None

\* ------------------------------------------- the override applier's claims

HasPythonLoader(cfg) == \E i \in 1..Len(cfg.loaders) : cfg.loaders[i].python

\* C7: an OverrideSet with modules, search path or legacy syntax set, applied
\* to a configuration without a Python loader, fails with the missing-loader
\* error and leaves the configuration as it was.
C7_MissingLoaderFails ==
  (applies >= 1 /\ LoaderOverrideRequested(session) /\ ~HasPythonLoader(cfg_before)) =>
    /\ pc = "exited"
    /\ exc = "SystemExit"
    /\ errmsg = << "no python loader found" >>
    /\ config = cfg_before

C7_Witness ==
  /\ applies = 1
  /\ pc = "exited"
  /\ session.search_path # << >>
  /\ session.render_toc # None
  /\ Len(cfg_before.loaders) >= 1
  /\ ~HasPythonLoader(cfg_before)

\* C8, as stated: whenever _apply_overrides fails, no field of the
\* configuration has been mutated.
C8_AllOrNothing ==
  pc = "exited" => config = cfg_before

\* C8, amended: a failed _apply_overrides is followed by no render and has
\* changed no render_toc flag. When it fails for the missing Python loader
\* nothing has been mutated; when it fails for the missing Markdown renderer
\* the configuration differs from the one before at most in the first Python
\* loader, which then holds the requested loader overrides.
C8_FailureEffects ==
  pc = "exited" =>
    /\ renders = 0
    /\ config.renderer = cfg_before.renderer
    /\ config.processors = cfg_before.processors
    /\ Len(config.loaders) = Len(cfg_before.loaders)
    /\ errmsg = << "no python loader found" >> => config = cfg_before
    /\ errmsg # << "no python loader found" >> =>
         /\ errmsg = << "renderer", cfg_before.renderer.kind, "does not expose a MarkdownRenderer" >>
         /\ ~LoaderOverrideRequested(session) => config = cfg_before
         /\ \A i \in 1..Len(config.loaders) :
              config.loaders[i] # cfg_before.loaders[i] =>
                /\ cfg_before.loaders[i].python
                /\ \A j \in 1..(i - 1) : ~cfg_before.loaders[j].python
                /\ session.modules # << >> => config.loaders[i].modules = session.modules
                /\ session.search_path # << >> => config.loaders[i].search_path = session.search_path
                /\ session.py2 # None => config.loaders[i].print_function = (session.py2 = "False")

C8_Witness ==
  /\ pc = "exited"
  /\ applies = 1
  /\ session.render_toc # None
  /\ session.modules # << >>
  /\ config # cfg_before

\* C9: applying the same OverrideSet again to the configuration a successful
\* application produced succeeds and leaves that configuration as it is.
C9_Idempotent ==
  applies >= 2 => (pc # "exited" /\ config = cfg_before)

C9_Witness ==
  /\ applies = 2
  /\ pc = "loaded"
  /\ session.modules # << >>
  /\ session.search_path # << >>
  /\ session.py2 # None
  /\ session.render_toc # None
  /\ Len(config.loaders) = 2
  /\ config.loaders[2].modules = session.modules

C20_OnlyRequestedFieldsChange ==
  /\ (applies >= 1 /\ session = NoOverrides) => (pc # "exited" /\ config = cfg_before)
  /\ (applies >= 1 /\ pc # "exited") =>
       /\ config.py_type = cfg_before.py_type
       /\ config.processors = cfg_before.processors
       /\ Len(config.loaders) = Len(cfg_before.loaders)
       /\ \A i \in 1..Len(config.loaders) :
            /\ config.loaders[i].python = cfg_before.loaders[i].python
            /\ config.loaders[i] # cfg_before.loaders[i] =>
                 /\ cfg_before.loaders[i].python
                 /\ \A j \in 1..(i - 1) : ~cfg_before.loaders[j].python
            /\ session.modules = << >> =>
                 config.loaders[i].modules = cfg_before.loaders[i].modules
            /\ session.search_path = << >> =>
                 config.loaders[i].search_path = cfg_before.loaders[i].search_path
            /\ session.py2 = None =>
                 config.loaders[i].print_function = cfg_before.loaders[i].print_function
       /\ session.render_toc = None => config.renderer = cfg_before.renderer
       /\ config.renderer.kind = cfg_before.renderer.kind
       /\ Len(config.renderer.fields) = Len(cfg_before.renderer.fields)
       /\ \A i \in 1..Len(config.renderer.fields) :
            config.renderer.fields[i].md = cfg_before.renderer.fields[i].md

C20_Witness ==
  /\ applies = 1
  /\ pc = "loaded"
  /\ session.modules = << >>
  /\ session.search_path # << >>
  /\ session.py2 = None
  /\ session.render_toc = None
  /\ Len(config.loaders) = 2
  /\ ~config.loaders[1].python
  /\ config.loaders[2].search_path = session.search_path
  /\ config.loaders[2].modules = << "cfg.mod" >>

====
